---- MODULE Spec2Model ----
(***************************************************************************)
(* Column-layout engine of rusl (src/layout.rs): col_widths_by_cols,       *)
(* col_widths_by_lines and determine_layout, driven by a caller that asks  *)
(* for the layout of one item-width list at one terminal width under both  *)
(* fill orders, as the unit tests of layout.rs do.                         *)
(***************************************************************************)
EXTENDS Integers, Sequences, FiniteSets

\* ---------------------------------------------------------------- bounds
\* longest item-width list of the input grid
MaxLen == 4
\* largest item width of the input grid
MaxWidth == 4
\* largest terminal width
MaxTermCols == 13

\* ------------------------------------------------------ program constants
MIN_COL_SIZE == 3

\* ------------------------------------------------------------ input sets
\* Item widths: 0 stands for every width below MIN_COL_SIZE (each is floored
\* to MIN_COL_SIZE by the fold), then every width MIN_COL_SIZE..MaxWidth.
ItemWidths == {0} \cup (MIN_COL_SIZE .. MaxWidth)

SeqsUpTo(S, n) == UNION {[1..k -> S] : k \in 0..n}

\* The inputs of test_determine_layout1, test_determine_layout2 and the
\* nothing-fits scenario (one item of width 100 at terminal width 10).
Scenarios ==
    { [lens |-> <<5, 5, 4, 4>>, term_cols |-> 10],
      [lens |-> <<3, 3, 7, 7, 3>>, term_cols |-> 13],
      [lens |-> <<100>>, term_cols |-> 10] }

Inputs ==
    { [lens |-> l, term_cols |-> t] : l \in SeqsUpTo(ItemWidths, MaxLen),
                                      t \in 0..MaxTermCols }
    \cup Scenarios

\* --------------------------------------------------------------- helpers
Max(a, b) == IF a >= b THEN a ELSE b
Min(a, b) == IF a <= b THEN a ELSE b

RECURSIVE Sum(_)
Sum(s) == IF s = <<>> THEN 0 ELSE Head(s) + Sum(Tail(s))

\* iter().fold(min_width, |acc, l| max(acc, *l))
RECURSIVE FoldMax(_, _)
FoldMax(acc, s) == IF s = <<>> THEN acc ELSE FoldMax(Max(acc, Head(s)), Tail(s))

\* s[from..to] with 0-based, half-open Rust indices
Slice(s, from, to) == SubSeq(s, from + 1, to)

\* slice.chunks_exact(size): the Len \div size full chunks, remainder dropped
chunks_exact(s, size) ==
    [i \in 1..(Len(s) \div size) |-> SubSeq(s, (i - 1) * size + 1, i * size)]

\* ChunksExact::remainder()
remainder(s, size) == SubSeq(s, (Len(s) \div size) * size + 1, Len(s))

\* iter().step_by(step): elements 0, step, 2*step, ...
step_by(s, step) ==
    [i \in 1..((Len(s) + step - 1) \div step) |-> s[(i - 1) * step + 1]]

\* the closure chunks_to_col_width of col_widths_by_cols
chunks_to_col_width(min_width, chunks) ==
    [i \in 1..Len(chunks) |-> FoldMax(min_width, chunks[i])]

LayoutInfo_new(n, w) == [num_cols |-> n, col_width |-> w]

\* variant: the default of the draft in main.rs, an empty width vector
LayoutInfo_default_empty == [num_cols |-> 1, col_width |-> <<>>]

LayoutInfo_default == [num_cols |-> 1, col_width |-> <<0>>]

\* ------------------------------------------------- column-width functions
\* variant: the earlier draft col_widths_by_cols_bad, which chunks the whole
\* list by num_rows and seeds the first columns with the remainder items
col_widths_by_cols_bad(min_width, num_cols, lens) ==
    LET num_rows == Len(lens) \div num_cols
        chunks   == chunks_exact(lens, num_rows)
        rem      == remainder(lens, num_rows)
    IN  [i \in 1..Len(chunks) |->
            FoldMax(IF i <= Len(rem) THEN rem[i] ELSE min_width, chunks[i])]

\* variant: the longer columns are counted with num_rows items each
by_cols_end_short(num_cols, lens) ==
    (Len(lens) % num_cols) * (Len(lens) \div num_cols)

\* let end = rem * (num_rows + 1): where the first rem columns stop
by_cols_end(num_cols, lens) ==
    (Len(lens) % num_cols) * (Len(lens) \div num_cols + 1)

\* lens[..end], to be chunked by num_rows + 1 elements
by_cols_start_slice(num_cols, lens) == Slice(lens, 0, by_cols_end(num_cols, lens))

\* lens[end..], to be chunked by num_rows elements
by_cols_fin_slice(num_cols, lens) ==
    Slice(lens, by_cols_end(num_cols, lens), Len(lens))

col_widths_by_cols(min_width, num_cols, lens) ==
    LET num_rows == Len(lens) \div num_cols
        start_col_widths ==
            chunks_to_col_width(min_width,
                chunks_exact(by_cols_start_slice(num_cols, lens), num_rows + 1))
        fin_col_widths ==
            chunks_to_col_width(min_width,
                chunks_exact(by_cols_fin_slice(num_cols, lens), num_rows))
    IN  start_col_widths \o fin_col_widths

\* the two debug_assert!(chunks.remainder().is_empty())
by_cols_debug_asserts(num_cols, lens) ==
    LET num_rows == Len(lens) \div num_cols
    IN  /\ remainder(by_cols_start_slice(num_cols, lens), num_rows + 1) = <<>>
        /\ remainder(by_cols_fin_slice(num_cols, lens), num_rows) = <<>>

\* variant: the stride is one too long (step_by(num_cols + 1))
col_widths_by_lines_stride(min_width, num_cols, lens) ==
    [o \in 1..num_cols |->
        FoldMax(min_width, step_by(Slice(lens, o - 1, Len(lens)), num_cols + 1))]

\* variant: the fill-order flag is ignored and items are grouped down columns
col_widths_by_lines_as_cols(min_width, num_cols, lens) ==
    col_widths_by_cols(min_width, num_cols, lens)

\* column o (1-based here, offset o - 1 in the code) folds lens[offset..]
\* stepped by num_cols
col_widths_by_lines(min_width, num_cols, lens) ==
    [o \in 1..num_cols |->
        FoldMax(min_width, step_by(Slice(lens, o - 1, Len(lens)), num_cols))]

\* The panics of col_widths_by_cols: division by zero, chunks_exact(0) and
\* a slice end past the end of lens.
col_widths_by_cols_panics(num_cols, lens) ==
    \/ num_cols = 0
    \/ Len(lens) \div num_cols = 0
    \/ (Len(lens) % num_cols) * (Len(lens) \div num_cols + 1) > Len(lens)

\* The panic of col_widths_by_lines: lens[offset..] with offset > lens.len()
\* (offset runs over 0..num_cols, so step_by(0) is never evaluated).
col_widths_by_lines_panics(num_cols, lens) ==
    num_cols > Len(lens) + 1

\* ------------------------------------------------------------------ state
VARIABLES
    lens,           \* the caller's item widths
    term_cols,      \* the caller's terminal width
    pc,             \* "start" | "loop" | "done" | "panic"
    by_lines,       \* fill order of the call in progress (or last made)
    max_cols,       \* determine_layout: max_cols
    num_cols,       \* determine_layout: the loop variable, next candidate
    col_width,      \* determine_layout: width vector of the last candidate
    valid_layouts,  \* determine_layout: the candidates that fit
    tried,          \* the candidate column counts evaluated by this call
    popped,         \* valid_layouts.pop(): <<>> for None, <<l>> for Some(l)
    result,         \* the descriptor the last call returned
    repeat,         \* the call in progress (or last made) repeats an earlier one
    ret,            \* per fill order, every descriptor returned so far
    str_paths,      \* display_paths: the lengths of the names to print
    st_mode,        \* LongPathInfo::from: p.meta.st_mode()
    st_mtime,       \* LongPathInfo::from: p.meta.st_mtime(), seconds
    now,            \* LongPathInfo::from: SystemTime::now(), seconds
    mode,           \* LongPathInfo::from: FileMode(..).to_string(), by character
    last_modified   \* LongPathInfo::from: the strftime format chosen

\* the state of the short listing (main.rs) and of the long listing
\* (pathinfo.rs, filemode.rs); the layout engine leaves both alone
displayvars == <<str_paths>>
longvars == <<st_mode, st_mtime, now, mode, last_modified>>

vars == <<lens, term_cols, pc, by_lines, max_cols, num_cols, col_width,
          valid_layouts, tried, popped, result, repeat, ret,
          str_paths, st_mode, st_mtime, now, mode, last_modified>>

\* no long listing is in progress
LongIdle ==
    /\ st_mode = 0
    /\ st_mtime = 0
    /\ now = 0
    /\ mode = <<>>
    /\ last_modified = ""

Init ==
    /\ \E inp \in Inputs : lens = inp.lens /\ term_cols = inp.term_cols
    /\ pc = "start"
    /\ by_lines = FALSE
    /\ max_cols = 0
    /\ num_cols = 0
    /\ col_width = <<>>
    /\ valid_layouts = <<>>
    /\ tried = <<>>
    /\ popped = <<>>
    /\ result = LayoutInfo_new(0, <<>>)
    /\ repeat = FALSE
    /\ ret = [b \in BOOLEAN |-> {}]
    /\ str_paths = <<>>
    /\ LongIdle

\* ------------------------------------------------------ determine_layout
\* variant: the item count is left out of the bound
MaxColsNoLen(t, l) == t \div MIN_COL_SIZE

\* variant: the terminal width is left out of the bound
MaxColsNoTerm(t, l) == Len(l)

\* max_cols = min(term_cols / MIN_COL_SIZE, lens.len())
MaxCols(t, l) == Min(t \div MIN_COL_SIZE, Len(l))

\* variant: the loop variable keeps its value from the previous call
FirstCandidateStale == IF pc = "start" THEN 1 ELSE num_cols

\* for num_cols in 1..=max_cols
FirstCandidate == 1

\* variant: the search stops at the first candidate that does not fit
NextCandidateBreak(c, fits) == IF fits THEN c + 1 ELSE max_cols + 1

\* the loop goes on to the next column count whether or not c fits
NextCandidate(c, fits) == c + 1

\* variant: a candidate must be strictly narrower than the terminal
FitsStrict(total_width, t) == total_width < t

\* variant: every candidate is recorded
FitsAlways(total_width, t) == TRUE

\* if total_width <= term_cols
Fits(total_width, t) == total_width <= t

\* variant: the first recorded candidate is taken
PopFirst(v) == IF v = <<>> THEN <<>> ELSE <<v[1]>>

\* Vec::pop() as an Option: the last element, if any
Pop(v) == IF v = <<>> THEN <<>> ELSE <<v[Len(v)]>>

\* Option::unwrap_or_default()
UnwrapOrDefault(o) == IF o = <<>> THEN LayoutInfo_default ELSE o[1]

\* the body of `let col_width = if by_lines {..} else {..}`
ColWidths(b, c, l) ==
    IF b THEN col_widths_by_lines(MIN_COL_SIZE, c, l)
         ELSE col_widths_by_cols(MIN_COL_SIZE, c, l)

ColWidthsPanics(b, c, l) ==
    IF b THEN col_widths_by_lines_panics(c, l)
         ELSE col_widths_by_cols_panics(c, l)

\* The caller invokes determine_layout(b, term_cols, lens): entry of the
\* function, up to the loop head.
Call(b) ==
    /\ pc \in {"start", "done"}
    /\ by_lines' = b
    /\ max_cols' = MaxCols(term_cols, lens)
    /\ valid_layouts' = <<>>
    /\ num_cols' = FirstCandidate
    /\ col_width' = <<>>
    /\ tried' = <<>>
    /\ popped' = <<>>
    /\ repeat' = (ret[b] # {})
    /\ pc' = "loop"
    /\ UNCHANGED <<lens, term_cols, result, ret>>
    /\ UNCHANGED <<displayvars, longvars>>

\* One iteration of the loop: the candidate num_cols is evaluated and
\* recorded if it fits.
Candidate ==
    /\ pc = "loop"
    /\ num_cols <= max_cols
    /\ tried' = Append(tried, num_cols)
    /\ IF ColWidthsPanics(by_lines, num_cols, lens)
         THEN /\ pc' = "panic"
              /\ UNCHANGED <<col_width, valid_layouts, num_cols>>
         ELSE LET cw == ColWidths(by_lines, num_cols, lens)
                  total_width == Sum(cw)
              IN  /\ col_width' = cw
                  /\ valid_layouts' =
                        IF Fits(total_width, term_cols)
                          THEN Append(valid_layouts, LayoutInfo_new(num_cols, cw))
                          ELSE valid_layouts
                  /\ num_cols' =
                        NextCandidate(num_cols, Fits(total_width, term_cols))
                  /\ pc' = "loop"
    /\ UNCHANGED <<lens, term_cols, by_lines, max_cols, popped, result, repeat,
                   ret>>
    /\ UNCHANGED <<displayvars, longvars>>

\* The loop is exhausted: valid_layouts.pop().unwrap_or_default()
Return ==
    /\ pc = "loop"
    /\ num_cols > max_cols
    /\ popped' = Pop(valid_layouts)
    /\ valid_layouts' = SubSeq(valid_layouts, 1, Len(valid_layouts) - 1)
    /\ result' = UnwrapOrDefault(popped')
    /\ ret' = [ret EXCEPT ![by_lines] = @ \cup {result'}]
    /\ pc' = "done"
    /\ UNCHANGED <<lens, term_cols, by_lines, max_cols, num_cols, col_width,
                   tried, repeat>>
    /\ UNCHANGED <<displayvars, longvars>>

Next ==
    \/ \E b \in BOOLEAN : Call(b)
    \/ Candidate
    \/ Return

Spec == Init /\ [][Next]_vars

\* One listing: display_paths calls determine_layout once. The function is
\* straight-line sequential code, so once called its loop body and its return
\* are executed without waiting on anything (weak fairness). The inputs are
\* those of Init with the longest lists of the grid left out.
FairInputs == {inp \in Inputs : Len(inp.lens) < MaxLen \/ inp \in Scenarios}

FairInit == Init /\ [lens |-> lens, term_cols |-> term_cols] \in FairInputs

FairNext == pc # "done" /\ Next

FairSpec ==
    FairInit /\ [][FairNext]_vars /\ WF_vars(Candidate) /\ WF_vars(Return)

\* ------------------------------------------- the short listing (main.rs)
\* bound: longest file name of the listing
MaxNameLen == 4

COL_SEP_LEN == 2

\* LayoutInfo::default() of main.rs: one column, no width
Main_LayoutInfo_default == [num_cols |-> 1, col_width |-> <<>>]

\* lens = str_paths.iter().map(|s| s.len() + COL_SEP_LEN)
Main_lens(sp) == [i \in 1..Len(sp) |-> sp[i] + COL_SEP_LEN]

\* The padding computations of display_by_lines, as (column, item) index
\* pairs, 0-based as in the code: the chunk of item i is i / num_cols and its
\* position in the chunk is i % num_cols.
display_by_lines_visits(layout, sp) ==
    {[col |-> i % layout.num_cols, item |-> i, sat |-> FALSE] :
        i \in 0..(Len(sp) - 1)}

\* The padding computations of display_by_cols. sat marks the ones done with
\* saturating_sub (the second printing of the rows).
display_by_cols_visits(layout, sp) ==
    LET n        == Len(sp)
        c        == layout.num_cols
        num_rows == n \div c
        rem      == n % c
        \* for r in 0..num_rows: str_paths[r..end].iter().step_by(num_rows + 1)
        first(r) ==
            LET end == r + (num_rows + 1) * rem
            IN  {[col |-> k, item |-> r + k * (num_rows + 1), sat |-> FALSE] :
                    k \in {k \in 0..n : r + k * (num_rows + 1) < end}}
        \* str_paths[end..].iter().step_by(num_rows), columns c + rem
        second(r) ==
            LET end == r + (num_rows + 1) * rem
            IN  {[col |-> k + rem, item |-> end + k * num_rows, sat |-> FALSE] :
                    k \in {k \in 0..n : end + k * num_rows < n}}
        \* the final partial row: str_paths[num_rows..].iter().step_by(num_rows + 1)
        partial ==
            {[col |-> k, item |-> num_rows + k * (num_rows + 1), sat |-> FALSE] :
                k \in {k \in 0..n : num_rows + k * (num_rows + 1) < n}}
        \* the second printing: ind starts at r and advances by the column length
        ind(r, col) == r + col * num_rows + Min(col, rem)
        again ==
            {[col |-> col, item |-> ind(r, col), sat |-> TRUE] :
                r \in 0..(num_rows - 1), col \in 0..(c - 1)}
        again_partial ==
            {[col |-> col, item |-> num_rows + col * (num_rows + 1), sat |-> TRUE] :
                col \in 0..(rem - 1)}
    IN  UNION {first(r) \cup second(r) : r \in 0..(num_rows - 1)}
        \cup partial \cup again \cup again_partial

\* if opts.by_lines { display_by_lines(..) } else { display_by_cols(..) }
display_visits(b, layout, sp) ==
    IF b THEN display_by_lines_visits(layout, sp)
         ELSE display_by_cols_visits(layout, sp)

\* A padding computation panics when it indexes past col_width or
\* str_paths, or when col_width[c] - s.len() underflows (a panic in a debug
\* build; in a release build the wrapped length makes " ".repeat panic).
visit_panics(v, layout, sp) ==
    \/ v.col >= Len(layout.col_width)
    \/ v.item >= Len(sp)
    \/ ~v.sat /\ layout.col_width[v.col + 1] < sp[v.item + 1]

display_panics(b, layout, sp) ==
    \/ layout.num_cols = 0
    \/ \E v \in display_visits(b, layout, sp) : visit_panics(v, layout, sp)

DisplayInputs ==
    {[str_paths |-> sp, term_cols |-> t] :
        sp \in SeqsUpTo(1..MaxNameLen, MaxLen), t \in 0..MaxTermCols}

\* display_paths is entered with the names to print and the terminal width
DisplayInit ==
    /\ \E inp \in DisplayInputs :
          str_paths = inp.str_paths /\ term_cols = inp.term_cols
    /\ pc = "start"
    /\ lens = <<>>
    /\ by_lines = FALSE
    /\ max_cols = 0
    /\ num_cols = 0
    /\ col_width = <<>>
    /\ valid_layouts = <<>>
    /\ tried = <<>>
    /\ popped = <<>>
    /\ result = LayoutInfo_new(0, <<>>)
    /\ repeat = FALSE
    /\ ret = [b \in BOOLEAN |-> {}]
    /\ LongIdle

\* display_paths calls determine_layout of main.rs with opts.by_lines = b:
\* entry of the function, up to the loop head
Main_Call(b) ==
    /\ pc = "start"
    /\ by_lines' = b
    /\ max_cols' = MaxCols(term_cols, str_paths)
    /\ lens' = Main_lens(str_paths)
    /\ valid_layouts' = <<>>
    /\ num_cols' = FirstCandidate
    /\ col_width' = <<>>
    /\ tried' = <<>>
    /\ popped' = <<>>
    /\ pc' = "loop"
    /\ UNCHANGED <<term_cols, result, repeat, ret, displayvars, longvars>>

\* valid_layouts.pop().unwrap_or_default() of main.rs
Main_Return ==
    /\ pc = "loop"
    /\ num_cols > max_cols
    /\ popped' = Pop(valid_layouts)
    /\ valid_layouts' = SubSeq(valid_layouts, 1, Len(valid_layouts) - 1)
    /\ result' = IF popped' = <<>> THEN Main_LayoutInfo_default ELSE popped'[1]
    /\ ret' = [ret EXCEPT ![by_lines] = @ \cup {result'}]
    /\ pc' = "done"
    /\ UNCHANGED <<lens, term_cols, by_lines, max_cols, num_cols, col_width,
                   tried, repeat, displayvars, longvars>>

\* display_by_lines or display_by_cols prints the names with the layout
Display ==
    /\ pc = "done"
    /\ pc' = IF display_panics(by_lines, result, str_paths)
               THEN "panic" ELSE "shown"
    /\ UNCHANGED <<lens, term_cols, by_lines, max_cols, num_cols, col_width,
                   valid_layouts, tried, popped, result, repeat, ret,
                   displayvars, longvars>>

DisplayNext ==
    \/ \E b \in BOOLEAN : Main_Call(b)
    \/ Candidate
    \/ Main_Return
    \/ Display

DisplaySpec == DisplayInit /\ [][DisplayNext]_vars

\* ------------------------- the long listing (pathinfo.rs, filemode.rs)
\* bound: largest mode value (0o7777: the permission, sticky, setgid and
\* setuid bits)
MaxMode == 4095
\* bound: oldest modification time of the day grid, in days
MaxAgeDays == 8

SecsPerDay == 24 * 60 * 60

\* SystemTime::now() as seconds since the epoch (day 20000, in 2024)
NowSecs == 20000 * SecsPerDay

\* self.0 & mask != 0, for a mask with a single bit set
BitSet(m, mask) == (m \div mask) % 2 = 1

user_execute(m)  == BitSet(m, 64)
user_write(m)    == BitSet(m, 128)
user_read(m)     == BitSet(m, 256)
group_execute(m) == BitSet(m, 8)
group_write(m)   == BitSet(m, 16)
group_read(m)    == BitSet(m, 32)
other_execute(m) == BitSet(m, 1)
other_write(m)   == BitSet(m, 2)
other_read(m)    == BitSet(m, 4)
sticky_bit(m)    == BitSet(m, 512)
sgid_bit(m)      == BitSet(m, 1024)
suid_bit(m)      == BitSet(m, 2048)

\* impl Display for FileMode: the ten characters written, in order
FileMode_fmt(m) ==
    << IF user_write(m) THEN "w" ELSE "-",
       IF user_read(m) THEN "r" ELSE "-",
       IF suid_bit(m) THEN "s" ELSE IF user_execute(m) THEN "x" ELSE "-",
       IF group_write(m) THEN "w" ELSE "-",
       IF group_read(m) THEN "r" ELSE "-",
       IF sgid_bit(m) THEN "s" ELSE IF group_execute(m) THEN "x" ELSE "-",
       IF other_write(m) THEN "w" ELSE "-",
       IF other_read(m) THEN "r" ELSE "-",
       IF other_execute(m) THEN "x" ELSE "-",
       IF sticky_bit(m) THEN "t" ELSE "." >>

\* SystemTime::now() - Duration::from_secs(60 * 24 * 365), as a timestamp
one_year_ago_ts(t) == t - 60 * 24 * 365

\* the format handed to strftime_local for last_modified
last_modified_format(t, mtime) ==
    IF mtime < one_year_ago_ts(t) THEN "%b %d %Y" ELSE "%b %d %H:%M"

\* Ages of the file in seconds: whole days up to MaxAgeDays, and the seconds
\* around 60 * 24 * 365 seconds and around 365 days.
Ages ==
    {d * SecsPerDay : d \in 0..MaxAgeDays}
    \cup {60 * 24 * 365 + k : k \in {-1, 0, 1}}
    \cup {365 * SecsPerDay + k : k \in {-1, 0, 1}}
    \cup {364 * SecsPerDay, 366 * SecsPerDay, 730 * SecsPerDay}

\* LongPathInfo::from is entered with the metadata of one path
LongInit ==
    /\ st_mode \in 0..MaxMode
    /\ now = NowSecs
    /\ \E age \in Ages : st_mtime = now - age
    /\ mode = <<>>
    /\ last_modified = ""
    /\ pc = "long_start"
    /\ lens = <<>>
    /\ term_cols = 0
    /\ by_lines = FALSE
    /\ max_cols = 0
    /\ num_cols = 0
    /\ col_width = <<>>
    /\ valid_layouts = <<>>
    /\ tried = <<>>
    /\ popped = <<>>
    /\ result = LayoutInfo_new(0, <<>>)
    /\ repeat = FALSE
    /\ ret = [b \in BOOLEAN |-> {}]
    /\ str_paths = <<>>

\* LongPathInfo::from: the mode string and the last-modified format
From ==
    /\ pc = "long_start"
    /\ mode' = FileMode_fmt(st_mode)
    /\ last_modified' = last_modified_format(now, st_mtime)
    /\ pc' = "long_done"
    /\ UNCHANGED <<st_mode, st_mtime, now>>
    /\ UNCHANGED <<lens, term_cols, by_lines, max_cols, num_cols, col_width,
                   valid_layouts, tried, popped, result, repeat, ret, str_paths>>

LongNext == From

LongSpec == LongInit /\ [][LongNext]_vars

\* ================================================================ claims
\* the last call returned, and its descriptor was popped from valid_layouts
ReturnedCandidate == pc = "done" /\ popped # <<>>
\* the last call returned the fallback default
ReturnedDefault == pc = "done" /\ popped = <<>>
\* a candidate has been evaluated by the call in progress (or last made)
LastTried == tried[Len(tried)]

\* C1 - Fit invariant: whenever determine_layout returns a descriptor that
\* came from a candidate (not the fallback default), the sum of its
\* col_width entries is <= term_cols.
C1_FitInvariant ==
    ReturnedCandidate => Sum(result.col_width) <= term_cols

\* a multi-column candidate was returned
C1_Witness ==
    ReturnedCandidate /\ result.num_cols >= 2 /\ Len(lens) > result.num_cols

\* C2 - Minimum-width invariant: every entry of col_width in the descriptor
\* returned by determine_layout, candidate or fallback default, is
\* >= MIN_COL_SIZE (stated over the documented inputs, the non-empty lists).
C2_MinWidthInvariant ==
    (pc = "done" /\ lens # <<>>) =>
        \A i \in 1..Len(result.col_width) : result.col_width[i] >= MIN_COL_SIZE

\* C3 - Maximality: for a non-empty list, if determine_layout returns column
\* count k from a candidate, the returned widths are those of k columns under
\* the call's fill order, they fit, and no column count c with
\* k < c <= min(term_cols / 3, n) has a width vector whose sum is <= term_cols.
C3_Maximality ==
    (ReturnedCandidate /\ lens # <<>>) =>
        LET k == result.num_cols
            W(c) == IF by_lines THEN col_widths_by_lines(MIN_COL_SIZE, c, lens)
                                ELSE col_widths_by_cols(MIN_COL_SIZE, c, lens)
        IN  /\ k \in 1..Min(term_cols \div 3, Len(lens))
            /\ result.col_width = W(k)
            /\ Sum(W(k)) <= term_cols
            /\ \A c \in (k + 1)..Min(term_cols \div 3, Len(lens)) :
                   Sum(W(c)) > term_cols

\* a candidate was returned although a smaller column count fits too and a
\* larger one was tried and does not fit
C3_Witness ==
    /\ ReturnedCandidate
    /\ result.num_cols >= 2
    /\ result.num_cols < max_cols

\* C4 - Fallback value: when the candidates 1..max_cols were tried and none
\* fits (as for [100] at width 10), the descriptor returned has column count 1
\* and a single column of width MIN_COL_SIZE.
C4_FallbackValue ==
    (ReturnedDefault /\ tried # <<>>) => result = [num_cols |-> 1, col_width |-> <<MIN_COL_SIZE>>]

\* C5 - Descriptor shape: every descriptor returned, and every candidate
\* recorded, has num_cols >= 1 and col_width of length exactly num_cols.
C5_DescriptorShape ==
    /\ pc = "done" =>
          result.num_cols >= 1 /\ Len(result.col_width) = result.num_cols
    /\ \A i \in 1..Len(valid_layouts) :
          /\ valid_layouts[i].num_cols >= 1
          /\ Len(valid_layouts[i].col_width) = valid_layouts[i].num_cols

\* the fallback default was returned for a non-empty list
C5_Witness == ReturnedDefault /\ lens # <<>> /\ tried # <<>>

\* w is max(MIN_COL_SIZE, largest element of S)
IsFlooredMax(w, S) ==
    /\ w >= MIN_COL_SIZE
    /\ \A x \in S : w >= x
    /\ w = MIN_COL_SIZE \/ w \in S

\* C6 - Down-columns widths: for a candidate c (1 <= c <= n) evaluated down
\* columns, col_width has c entries; with num_rows = n / c and rem = n % c the
\* first rem columns cover num_rows + 1 consecutive items each, the others
\* num_rows each, and each width is max(MIN_COL_SIZE, largest item of the
\* run). [5,5,4,4] at 10 gives {2, [5,4]}, [3,3,7,7,3] at 13 gives {3, [3,7,3]}.
C6_DownColumns ==
    /\ (tried # <<>> /\ ~by_lines /\ pc # "panic") =>
          LET c        == LastTried
              n        == Len(lens)
              num_rows == n \div c
              rem      == n % c
              size(j)  == IF j <= rem THEN num_rows + 1 ELSE num_rows
              first(j) == (j - 1) * num_rows + Min(j - 1, rem) + 1
              run(j)   == first(j)..(first(j) + size(j) - 1)
          IN  /\ c \in 1..n
              /\ Len(col_width) = c
              /\ \A j \in 1..c :
                    /\ run(j) \subseteq 1..n
                    /\ IsFlooredMax(col_width[j], {lens[i] : i \in run(j)})
    /\ (pc = "done" /\ ~by_lines /\ lens = <<5, 5, 4, 4>> /\ term_cols = 10) =>
          result = LayoutInfo_new(2, <<5, 4>>)
    /\ (pc = "done" /\ ~by_lines /\ lens = <<3, 3, 7, 7, 3>> /\ term_cols = 13) =>
          result = LayoutInfo_new(3, <<3, 7, 3>>)

\* a down-columns candidate with unequal columns (rem > 0) and a column wider
\* than the minimum
C6_Witness ==
    /\ tried # <<>> /\ ~by_lines /\ pc = "loop"
    /\ LastTried >= 2
    /\ Len(lens) % LastTried # 0
    /\ Len(lens) \div LastTried >= 1
    /\ \E j \in 1..Len(col_width) : col_width[j] > MIN_COL_SIZE

\* C7 - Across-rows widths: for a candidate c (1 <= c <= n) evaluated across
\* rows, col_width has c entries and the width at offset o is
\* max(MIN_COL_SIZE, max of lens[o], lens[o+c], lens[o+2c], ...).
\* [5,5,4,4] at 10 gives {2, [5,5]}, [3,3,7,7,3] at 13 gives {1, [7]}.
C7_AcrossRows ==
    /\ (tried # <<>> /\ by_lines /\ pc # "panic") =>
          LET c == LastTried
              n == Len(lens)
              column(o) == {i \in 0..(n - 1) : i % c = o}
          IN  /\ c \in 1..n
              /\ Len(col_width) = c
              /\ \A o \in 0..(c - 1) :
                    IsFlooredMax(col_width[o + 1], {lens[i + 1] : i \in column(o)})
    /\ (pc = "done" /\ by_lines /\ lens = <<5, 5, 4, 4>> /\ term_cols = 10) =>
          result = LayoutInfo_new(2, <<5, 5>>)
    /\ (pc = "done" /\ by_lines /\ lens = <<3, 3, 7, 7, 3>> /\ term_cols = 13) =>
          result = LayoutInfo_new(1, <<7>>)

\* an across-rows candidate of several rows with a column wider than the
\* minimum
C7_Witness ==
    /\ tried # <<>> /\ by_lines /\ pc = "loop"
    /\ LastTried >= 2
    /\ Len(lens) > LastTried
    /\ \E j \in 1..Len(col_width) : col_width[j] > MIN_COL_SIZE

\* C8 - Fill-order sensitivity: the two fill orders return different
\* descriptors for the same input: [5,5,4,4] at width 10 gives {2, [5,4]} down
\* columns and {2, [5,5]} across rows; [3,3,7,7,3] at width 13 gives 3 columns
\* down columns and 1 column across rows.
C8_FillOrderSensitivity ==
    /\ (lens = <<5, 5, 4, 4>> /\ term_cols = 10) =>
          /\ ret[FALSE] \subseteq {LayoutInfo_new(2, <<5, 4>>)}
          /\ ret[TRUE] \subseteq {LayoutInfo_new(2, <<5, 5>>)}
    /\ (lens = <<3, 3, 7, 7, 3>> /\ term_cols = 13) =>
          /\ \A l \in ret[FALSE] : l.num_cols = 3
          /\ \A l \in ret[TRUE] : l.num_cols = 1

\* both fill orders have returned for the input [3,3,7,7,3] at width 13, and
\* the descriptors differ
C8_Witness ==
    /\ lens = <<3, 3, 7, 7, 3>> /\ term_cols = 13
    /\ ret[FALSE] # {} /\ ret[TRUE] # {}
    /\ ret[FALSE] \cap ret[TRUE] = {}

\* C9 - Determinism: every call of determine_layout with the same by_lines,
\* term_cols and lens returns the same descriptor, whatever calls were made
\* before it.
C9_Determinism ==
    \A b \in BOOLEAN : Cardinality(ret[b]) <= 1

\* a repeated call has returned a candidate
C9_Witness ==
    pc = "done" /\ repeat /\ popped # <<>> /\ result.num_cols >= 2

\* C10 - Empty input: for an empty list determine_layout evaluates no
\* candidate (max_cols = 0), does not panic, and returns the default
\* descriptor: column count 1 with an empty or zero-width column.
C10_EmptyInput ==
    lens = <<>> =>
        /\ pc # "panic"
        /\ tried = <<>>
        /\ pc \in {"loop", "done"} => max_cols = 0
        /\ pc = "done" =>
              /\ popped = <<>>
              /\ result.num_cols = 1
              /\ result.col_width \in {<<>>, <<0>>}

\* the empty list was laid out at a terminal width that admits a column
C10_Witness ==
    pc = "done" /\ lens = <<>> /\ term_cols >= MIN_COL_SIZE

\* C11 - Totality: every call of determine_layout evaluates the candidates
\* 1, 2, ..., max_cols once each in increasing order, every candidate c it
\* passes to the width functions satisfies 1 <= c <= n (no division by zero,
\* num_rows >= 1, no out-of-range slice), it never panics, and it terminates
\* with a descriptor.
C11_NoFault ==
    /\ pc # "panic"
    /\ \A i \in 1..Len(tried) :
          /\ tried[i] = i
          /\ 1 <= tried[i] /\ tried[i] <= Len(lens)
          /\ Len(lens) \div tried[i] >= 1
          /\ (Len(lens) % tried[i]) * (Len(lens) \div tried[i] + 1) <= Len(lens)
    /\ pc = "loop" => Len(tried) = num_cols - 1 /\ num_cols <= max_cols + 1
    /\ pc = "done" =>
          /\ Len(tried) = Min(term_cols \div MIN_COL_SIZE, Len(lens))
          /\ result.num_cols >= 1

C11_Totality == [](C11_NoFault) /\ ((pc = "loop") ~> (pc = "done"))

\* a call returned after trying as many column counts as there are items
C11_Witness ==
    pc = "done" /\ Len(tried) >= 3 /\ Len(tried) = Len(lens)

\* C12 - Column-count bound: the search tries only c in
\* 1..min(term_cols / MIN_COL_SIZE, n), so a candidate descriptor returned has
\* num_cols <= min(term_cols / 3, n); when term_cols < MIN_COL_SIZE the bound
\* is 0, no layout is tried and the fallback default is returned.
C12_ColumnCountBound ==
    LET bound == Min(term_cols \div 3, Len(lens))
    IN  /\ \A i \in 1..Len(tried) : tried[i] \in 1..bound
        /\ \A i \in 1..Len(valid_layouts) : valid_layouts[i].num_cols \in 1..bound
        /\ ReturnedCandidate => result.num_cols <= bound
        /\ (pc \in {"loop", "done"} /\ term_cols < MIN_COL_SIZE) =>
              /\ max_cols = 0
              /\ tried = <<>>
              /\ pc = "done" => popped = <<>> /\ result = LayoutInfo_default

\* the terminal width, not the item count, stopped the search, and the
\* descriptor returned has the largest column count tried
C12_Witness ==
    /\ ReturnedCandidate
    /\ Len(tried) = term_cols \div MIN_COL_SIZE
    /\ Len(tried) < Len(lens)
    /\ result.num_cols = Len(tried)
    /\ result.num_cols >= 2

\* C13 - Non-monotonic fit: for [3,3,7,7,3] at width 13, down columns, column
\* count 2 does not fit but 3 does; the search does not stop at the
\* non-fitting count 2, it tries 3 and returns it.
C13_NonMonotonicFit ==
    (lens = <<3, 3, 7, 7, 3>> /\ term_cols = 13 /\ ~by_lines) =>
        /\ Sum(col_widths_by_cols(MIN_COL_SIZE, 2, lens)) > term_cols
        /\ Sum(col_widths_by_cols(MIN_COL_SIZE, 3, lens)) <= term_cols
        /\ \A i \in 1..Len(valid_layouts) : valid_layouts[i].num_cols # 2
        /\ pc = "done" =>
              /\ tried = <<1, 2, 3, 4>>
              /\ result = LayoutInfo_new(3, <<3, 7, 3>>)

\* a descriptor was returned whose column count fits although a smaller
\* column count was tried and did not fit
C13_Witness ==
    /\ ReturnedCandidate /\ ~by_lines
    /\ \E c \in 1..(result.num_cols - 1) :
          Sum(col_widths_by_cols(MIN_COL_SIZE, c, lens)) > term_cols

RECURSIVE Flatten(_)
Flatten(ss) == IF ss = <<>> THEN <<>> ELSE Head(ss) \o Flatten(Tail(ss))

\* C14 - Exact partition in col_widths_by_cols: for every candidate c
\* (1 <= c <= n) evaluated down columns, with end = rem * (num_rows + 1),
\* lens[..end] splits into exactly rem chunks of num_rows + 1 items and
\* lens[end..] into exactly c - rem chunks of num_rows items, both remainders
\* are empty (the debug assertions hold), the chunks in order make up lens
\* (every item is in exactly one column), and when n % c = 0 the first step
\* contributes no column.
C14_ExactPartition ==
    (tried # <<>> /\ ~by_lines /\ pc # "panic") =>
        LET c        == LastTried
            n        == Len(lens)
            num_rows == n \div c
            rem      == n % c
            start    == chunks_exact(by_cols_start_slice(c, lens), num_rows + 1)
            fin      == chunks_exact(by_cols_fin_slice(c, lens), num_rows)
        IN  /\ by_cols_end(c, lens) <= n
            /\ Len(by_cols_start_slice(c, lens)) = rem * (num_rows + 1)
            /\ Len(by_cols_fin_slice(c, lens)) = (c - rem) * num_rows
            /\ Len(start) = rem
            /\ \A i \in 1..Len(start) : Len(start[i]) = num_rows + 1
            /\ Len(fin) = c - rem
            /\ \A i \in 1..Len(fin) : Len(fin[i]) = num_rows
            /\ by_cols_debug_asserts(c, lens)
            /\ Flatten(start \o fin) = lens
            /\ rem = 0 => start = <<>>

\* a down-columns candidate with one longer column and at least two shorter
\* ones
C14_Witness ==
    /\ tried # <<>> /\ ~by_lines /\ pc = "loop"
    /\ Len(lens) % LastTried >= 1
    /\ LastTried - (Len(lens) % LastTried) >= 2

IsNonIncreasing(s) == \A i \in 1..(Len(s) - 1) : s[i] >= s[i + 1]

\* C15 (as claimed) - Across-rows is more conservative than down-columns: for
\* every item-width list and terminal width the column count returned with
\* by_lines = true is never larger than the one returned with
\* by_lines = false.
C15_AcrossRowsNeverMore ==
    \A a \in ret[TRUE] : \A d \in ret[FALSE] : a.num_cols <= d.num_cols

\* C15 (amended) - The column count returned across rows is never larger
\* than the one returned down columns when the item widths are in
\* non-increasing order, and it is smaller for [3,3,7,7,3] at width 13
\* (1 against 3); for other lists it can be larger.
C15_AcrossRowsNeverMoreSorted ==
    /\ IsNonIncreasing(lens) =>
          \A a \in ret[TRUE] : \A d \in ret[FALSE] : a.num_cols <= d.num_cols
    /\ (lens = <<3, 3, 7, 7, 3>> /\ term_cols = 13) =>
          \A a \in ret[TRUE] : \A d \in ret[FALSE] : a.num_cols < d.num_cols

\* both fill orders have returned for a non-increasing list, across rows with
\* fewer columns than down columns
C15_Witness ==
    /\ IsNonIncreasing(lens)
    /\ \E a \in ret[TRUE] : \E d \in ret[FALSE] :
          a.num_cols < d.num_cols /\ a.num_cols >= 1

\* C16 - Fallback condition: for a non-empty list and either fill order,
\* determine_layout returns the fallback default exactly when
\* max(MIN_COL_SIZE, largest item width) > term_cols; otherwise a candidate is
\* returned. The condition does not depend on the fill order.
C16_FallbackCondition ==
    (pc = "done" /\ lens # <<>>) =>
        LET too_wide == \/ MIN_COL_SIZE > term_cols
                        \/ \E i \in 1..Len(lens) : lens[i] > term_cols
        IN  /\ (popped = <<>>) <=> too_wide
            /\ too_wide => (result = LayoutInfo_default)
            /\ (~too_wide) =>
                  /\ result = popped[1]
                  /\ result.num_cols >= 1
                  /\ Sum(result.col_width) <= term_cols

\* an item exactly as wide as the terminal is laid out in one column
C16_Witness ==
    /\ ReturnedCandidate /\ by_lines
    /\ \E i \in 1..Len(lens) : lens[i] = term_cols
    /\ Len(lens) >= 2

\* the column of item i (0-based) under the fill order b with c columns
ColumnOf(b, c, n, i) ==
    IF b THEN i % c
    ELSE LET num_rows == n \div c
             rem      == n % c
         IN  IF i < rem * (num_rows + 1)
               THEN i \div (num_rows + 1)
               ELSE rem + (i - rem * (num_rows + 1)) \div num_rows

\* C17 - Items fit their columns: the descriptor returned by determine_layout
\* (main.rs) gives each item, under the fill order's item-to-column
\* assignment, a column whose width is >= the item's width, and the padding
\* computations layout.col_width[c] - s.len() of display_by_lines and
\* display_by_cols never index past col_width and never underflow.
C17_ItemsFitColumns ==
    /\ pc \in {"done", "shown", "panic"} =>
          \A i \in 0..(Len(str_paths) - 1) :
              LET c == ColumnOf(by_lines, result.num_cols, Len(str_paths), i)
              IN  /\ c < Len(result.col_width)
                  /\ result.col_width[c + 1] >= lens[i + 1]
    /\ pc # "panic"

\* C18 - Long-format date threshold: last_modified is rendered with the year
\* format "%b %d %Y" exactly when the modification time is more than one year
\* (365 days) before the current time, and with the time-of-day format
\* "%b %d %H:%M" otherwise.
C18_DateThreshold ==
    pc = "long_done" =>
        IF now - st_mtime > 365 * 24 * 60 * 60
          THEN last_modified = "%b %d %Y"
          ELSE last_modified = "%b %d %H:%M"

\* C19 - File-mode rendering: the output has the fixed length of ten
\* characters; each of the user, group and other triplets is rendered in ls
\* order, read then write then execute, with 'r' / 'w' / 'x' or '-' per bit;
\* the user (group) execute position shows 's' whenever the setuid (setgid)
\* bit is set, never 'S'.
C19_FileModeRendering ==
    pc = "long_done" =>
        LET bit(k) == (st_mode \div (2 ^ k)) % 2 = 1
            rw(i, k, ch) == mode[i] = (IF bit(k) THEN ch ELSE "-")
            exec(i, k, special) ==
                mode[i] = (IF bit(special) THEN "s"
                           ELSE IF bit(k) THEN "x" ELSE "-")
        IN  /\ Len(mode) = 10
            /\ rw(1, 8, "r") /\ rw(2, 7, "w") /\ exec(3, 6, 11)
            /\ rw(4, 5, "r") /\ rw(5, 4, "w") /\ exec(6, 3, 10)
            /\ rw(7, 2, "r") /\ rw(8, 1, "w") /\ rw(9, 0, "x")
            /\ \A i \in 1..Len(mode) : mode[i] # "S"

====
